---- MODULE Spec2Model ----
(***************************************************************************)
(* Session manager of the Outlook task-pane add-in                         *)
(* (src/src/auth/AuthService.ts): the AuthState object, the session the    *)
(* OIDC library keeps in browser storage, and the operations initialize,   *)
(* login, handleCallback, getIdToken, renewToken, logout and signOut,      *)
(* together with the events the OIDC library raises; the profile the task  *)
(* pane shows (taskpane.ts), the localStorage sweep of signOut, and the    *)
(* API clients that ask AuthService for a token (LambdaAgentClient.ts,     *)
(* BedrockAgentCoreClient.ts, BedrockAgentClient.ts).                      *)
(*                                                                         *)
(* The OIDC library (oidc-client) is an external collaborator. It is       *)
(* modelled by what AuthService relies on: getUser() reads the stored      *)
(* session and raises nothing; signinRedirectCallback() and signinSilent() *)
(* store the new session and raise userLoaded before they resolve;         *)
(* removeUser() removes the stored session and raises userUnloaded;        *)
(* User.expired is true exactly when expires_at is set and not in the      *)
(* future. Storage reads succeed; removeUser() may reject.                 *)
(*                                                                         *)
(* JavaScript runs each handler to its next network wait without           *)
(* interleaving, so every operation is one action except a silent renewal  *)
(* outside the host sandbox, which waits for the provider: it is split     *)
(* into the step that starts signinSilent() and the step that settles it.  *)
(***************************************************************************)
EXTENDS Integers, Sequences, FiniteSets, TLC

VARIABLES
    office,       \* typeof Office !== 'undefined' (host sandbox)
    now,          \* Math.floor(Date.now() / 1000)
    store,        \* the session userManager.getUser() returns, or NoUser
    authState,    \* AuthService.authState
    hashToken,    \* window.location.hash includes 'id_token'
    signinState,  \* the library holds the state of a started sign-in request
    pending,      \* the signinSilent() in flight: its caller, and what the caller read
    last,         \* the operation that completed last, and how
    calls,        \* provider calls made by the operation in `last`
    emitted,      \* events emitted to subscribers by the latest step
    renewFailed,  \* a renewal has failed and no login callback succeeded since
    appStorage,   \* localStorage keys written by others than the OIDC library
    payload,      \* claims of the id_token the stored session came with
    displayed,    \* what displayUserIdentity shows of the session's profile
    client        \* the API call in progress (invoke or getSellerHistory), or the last one

vars == <<office, now, store, authState, hashToken, signinState, pending,
          last, calls, emitted, renewFailed, appStorage, payload, displayed, client>>

----------------------------------------------------------------------------
(* Bounds of the model *)

\* Instants the clock takes (seconds), chosen around the expiry values
\* below: a token is met 300 s before its expiry (or earlier), 60 s before
\* it, at its expiry and after it.
Clock == {100, 340, 400, 401}

\* exp / expires_at values the provider issues.
ExpValues == {400, 1000}

\* Number of distinct identities (sub claims) the provider issues.
NumSubs == 2

Subs == 1 .. NumSubs

\* expires_at not set on the stored session (`!expiresAt`).
Absent == 0

\* Seconds before expiry at which isTokenExpired asks for renewal outside
\* the host sandbox.
ExpirationBuffer == 60

----------------------------------------------------------------------------
(* Values *)

NoUser == [sub |-> 0, expires_at |-> Absent, idExp |-> Absent, access |-> FALSE]

\* Sessions the library can hold: the id_token always carries exp;
\* expires_at is set only when the provider's response carried expires_in.
Users == [sub : Subs, expires_at : {Absent} \cup ExpValues,
          idExp : ExpValues, access : BOOLEAN]

\* Sessions the provider can issue at time t: not yet expired at issue.
NewUsers(t) == {u \in Users : u.idExp > t /\ (u.expires_at = Absent \/ u.expires_at > t)}

Null == [sub |-> 0]

NoError == "null"

InitialAuthState ==
    [isAuthenticated |-> FALSE, user |-> Null, isLoading |-> FALSE, error |-> NoError]

NoPending == [by |-> "none", idExpPast |-> FALSE, expiryPast |-> FALSE]

\* No API call has been made: which API, what the call awaits, its
\* retryCount, the HTTP requests and forced renewals it has made, the
\* status of its latest response, whether its forced renewal resolved, and
\* how it ended.
NoCall == [api |-> "none", phase |-> "idle", retryCount |-> 0, requests |-> 0,
           renewals |-> 0, status |-> 0, renewed |-> FALSE, outcome |-> "none"]

----------------------------------------------------------------------------
(* Pure functions of AuthService *)

\* extractUserProfile: the identity AuthState keeps of a session.
extractUserProfile(u) == [sub |-> u.sub]

\* User.expired of the library: expires_in = expires_at - now, defined only
\* when expires_at is.
Expired(u, t) == u.expires_at # Absent /\ u.expires_at - t <= 0

\* The exp claim decoded from the id_token (split('.'), atob, JSON.parse).
DecodedExp(u) == u.idExp

\* The expiry isTokenExpired works with: expires_at, else the id_token's exp.
EffectiveExpiry(u) == IF u.expires_at # Absent THEN u.expires_at ELSE DecodedExp(u)

\* The id_tokens a stored session can carry: the number of dot-separated
\* parts, whether the middle part decodes (atob, JSON.parse) and the exp
\* claim of its payload.
IdTokens == [parts : {2, 3}, json : BOOLEAN, exp : ExpValues]

\* Lines 240-252: the exp claim read from an id_token, Absent when the
\* token has not three parts or its payload cannot be decoded.
DecodeIdToken(tok) == IF tok.parts = 3 /\ tok.json THEN tok.exp ELSE Absent

\* Sessions browser storage can hold, whatever the shape of their id_token.
StoredSessions ==
    {[sub |-> s, expires_at |-> e, idExp |-> DecodeIdToken(tok), access |-> a] :
        s \in Subs, e \in {Absent} \cup ExpValues, tok \in IdTokens, a \in BOOLEAN}

\* Faulty variant: the buffer outside the sandbox is five times as long.
isTokenExpired_LongBuffer(u, isOfficeAddIn, t) ==
    IF u = NoUser THEN TRUE
    ELSE IF EffectiveExpiry(u) = Absent THEN TRUE
    ELSE EffectiveExpiry(u) - t <= (IF isOfficeAddIn THEN 0 ELSE 5 * ExpirationBuffer)

\* Faulty variant: a session without any expiry is taken to be valid.
isTokenExpired_NoExpiryValid(u, isOfficeAddIn, t) ==
    IF u = NoUser THEN TRUE
    ELSE IF EffectiveExpiry(u) = Absent THEN FALSE
    ELSE EffectiveExpiry(u) - t <= (IF isOfficeAddIn THEN 0 ELSE ExpirationBuffer)

\* Faulty variant: only expires_at is consulted, the id_token is never decoded.
isTokenExpired_ExpiresAtOnly(u, isOfficeAddIn, t) ==
    IF u = NoUser THEN TRUE
    ELSE IF u.expires_at = Absent THEN FALSE
    ELSE u.expires_at - t <= (IF isOfficeAddIn THEN 0 ELSE ExpirationBuffer)

isTokenExpired(u, isOfficeAddIn, t) ==
    IF u = NoUser THEN TRUE
    ELSE IF EffectiveExpiry(u) = Absent THEN TRUE
    ELSE LET expirationBuffer == IF isOfficeAddIn THEN 0 ELSE ExpirationBuffer
             timeUntilExpiry == EffectiveExpiry(u) - t
         IN  timeUntilExpiry <= expirationBuffer

\* getUser(): the stored session's profile, or null.
GetUser == IF store = NoUser THEN Null ELSE extractUserProfile(store)

\* getAccessToken(): user?.access_token || null; the token is named by the
\* session that carries it.
GetAccessToken == IF store # NoUser /\ store.access THEN store ELSE NoUser

----------------------------------------------------------------------------
(* The profile: from the id_token's payload to what the task pane shows.   *)

\* A claim the payload does not carry (undefined).
NoClaim == "undefined"

\* Payloads of the id_tokens the provider issues: sub and exp always, name,
\* preferred_username and email optionally.
TokenPayloads ==
    [sub : Subs,
     name : {NoClaim, "Ann Lee"},
     preferred_username : {NoClaim, "alee"},
     email : {NoClaim, "alee@example.com"},
     exp : ExpValues]

NoPayload == [sub |-> 0, name |-> NoClaim, preferred_username |-> NoClaim,
              email |-> NoClaim, exp |-> Absent]

\* The session the library stores for an id_token with payload p (implicit
\* flow: no expires_at, no access token).
SessionOf(p) == [sub |-> p.sub, expires_at |-> Absent, idExp |-> p.exp, access |-> FALSE]

\* filterProtocolClaims: true - the library drops the protocol claims
\* (exp, iat, nbf, aud, iss, nonce, at_hash, c_hash) from user.profile.
FilterProtocolClaims(p) == [p EXCEPT !.exp = Absent]

\* a || b on strings: undefined and '' are falsy.
OrElse(a, b) == IF a \notin {NoClaim, ""} THEN a ELSE b

\* extractUserProfile with the fields the task pane shows, applied to
\* user.profile at time t.
extractUserProfileClaims(profile, t) ==
    [sub |-> profile.sub,
     name |-> OrElse(profile.name, OrElse(profile.preferred_username, "Unknown")),
     email |-> OrElse(profile.email, ""),
     exp |-> IF profile.exp # Absent THEN profile.exp ELSE t + 3600]

\* new Date(seconds * 1000).toLocaleString(): hours, minutes and seconds
\* since the epoch's midnight.
ToLocaleString(seconds) ==
    <<seconds \div 3600, (seconds % 3600) \div 60, seconds % 60>>

\* The fields displayUserIdentity renders of a UserProfile.
Rendered(user) ==
    [sub |-> user.sub,
     name |-> user.name,
     email |-> OrElse(user.email, "Not provided"),
     expiresAt |-> ToLocaleString(user.exp)]

NoDisplay == [sub |-> 0, name |-> NoClaim, email |-> NoClaim,
              expiresAt |-> ToLocaleString(Absent)]

----------------------------------------------------------------------------
(* localStorage.  A key is the sequence of its characters.                 *)

\* String.prototype.startsWith
StartsWith(key, prefix) ==
    Len(key) >= Len(prefix) /\ SubSeq(key, 1, Len(prefix)) = prefix

\* String.prototype.includes
Includes(key, part) ==
    \E i \in 1 .. Len(key) :
        i + Len(part) - 1 <= Len(key) /\ SubSeq(key, i, i + Len(part) - 1) = part

\* 'oidc.', the prefix WebStorageStateStore gives every key it writes.
OidcPrefix == <<"o", "i", "d", "c", ".">>

\* The key under which the library keeps the state of a started sign-in
\* request ('oidc.' followed by the request's id).
OidcStateKey == OidcPrefix \o <<"s", "1">>

\* Keys other code of the same origin keeps in localStorage: 'author',
\* 'tokens', 'theme'.
AppKeys == { <<"a", "u", "t", "h", "o", "r">>,
             <<"t", "o", "k", "e", "n", "s">>,
             <<"t", "h", "e", "m", "e">> }

\* Object.keys(localStorage)
LocalStorageKeys == appStorage \cup (IF signinState THEN {OidcStateKey} ELSE {})

\* The condition of line 386 under which signOut removes a key.
SweptKey(key) ==
    \/ StartsWith(key, OidcPrefix)
    \/ Includes(key, <<"a", "u", "t", "h">>)
    \/ Includes(key, <<"t", "o", "k", "e", "n">>)

\* Lines 384-389: the keys left in localStorage by signOut's sweep.
StorageSweep(keys) == {key \in keys : ~SweptKey(key)}

----------------------------------------------------------------------------
(* Event system and the handlers that write AuthState.  A handler maps a   *)
(* context [st, log] (AuthState, events emitted so far) to a context.      *)

\* emit(event): each delivery is logged with what a subscriber reading
\* isAuthenticated() / getAuthState() sees at that moment.
Emit(c, ev) ==
    [st |-> c.st,
     log |-> Append(c.log, [ev |-> ev, isAuth |-> c.st.isAuthenticated,
                            hasUser |-> c.st.user # Null])]

Ctx(st) == [st |-> st, log |-> << >>]

\* Faulty variant: the handler stores the profile but does not set isAuthenticated.
OnUserLoaded_NoFlag(c, u) ==
    Emit([c EXCEPT !.st.user = extractUserProfile(u),
                   !.st.isLoading = FALSE,
                   !.st.error = NoError],
         "userLoaded")

OnUserLoaded(c, u) ==
    Emit([c EXCEPT !.st = [isAuthenticated |-> TRUE,
                           user |-> extractUserProfile(u),
                           isLoading |-> FALSE,
                           error |-> NoError]],
         "userLoaded")

OnUserUnloaded(c) ==
    Emit([c EXCEPT !.st.isAuthenticated = FALSE,
                   !.st.user = Null,
                   !.st.isLoading = FALSE],
         "userUnloaded")

OnAccessTokenExpiring(c) == Emit(c, "accessTokenExpiring")

OnAccessTokenExpired(c) == Emit(c, "accessTokenExpired")

OnSilentRenewError(c) ==
    Emit([c EXCEPT !.st.error = "silentRenewMessage"], "silentRenewError")

\* Faulty variant: the timeout handler does not null the user.
handleRenewalTimeout_KeepsUser(c) ==
    Emit([c EXCEPT !.st.isAuthenticated = FALSE,
                   !.st.error = "sessionExpired"],
         "tokenExpired")

handleRenewalTimeout(c) ==
    Emit([c EXCEPT !.st.isAuthenticated = FALSE,
                   !.st.user = Null,
                   !.st.error = "sessionExpired"],
         "tokenExpired")

\* Faulty variant: the handler clears nothing before it emits.
handleInteractionRequired_EmitOnly(c) == Emit(c, "loginRequired")

handleInteractionRequired(c) ==
    Emit([c EXCEPT !.st.isAuthenticated = FALSE,
                   !.st.user = Null,
                   !.st.error = "signInAgain"],
         "loginRequired")

\* Faulty variant: the error handler emits before it clears AuthState.
handleRenewalError_EmitFirst(c) ==
    [Emit(c, "authenticationFailed") EXCEPT !.st.isAuthenticated = FALSE,
                                            !.st.user = Null,
                                            !.st.error = "authenticationFailed"]

\* Faulty variant: the error handler does not reset isAuthenticated.
handleRenewalError_KeepsAuth(c) ==
    Emit([c EXCEPT !.st.user = Null,
                   !.st.error = "authenticationFailed"],
         "authenticationFailed")

handleRenewalError(c) ==
    Emit([c EXCEPT !.st.isAuthenticated = FALSE,
                   !.st.user = Null,
                   !.st.error = "authenticationFailed"],
         "authenticationFailed")

\* Faulty variant: the sandbox branch clears AuthState without an event.
RenewUnsupported_NoEvent(c) ==
    [c EXCEPT !.st.isAuthenticated = FALSE,
              !.st.user = Null,
              !.st.error = "sessionExpired"]

\* Faulty variant: the sandbox branch does not null the user.
RenewUnsupported_KeepsUser(c) ==
    Emit([c EXCEPT !.st.isAuthenticated = FALSE,
                   !.st.error = "sessionExpired"],
         "tokenExpired")

\* renewToken in the host sandbox: no provider call, clear and throw.
RenewUnsupported(c) ==
    Emit([c EXCEPT !.st.isAuthenticated = FALSE,
                   !.st.user = Null,
                   !.st.error = "sessionExpired"],
         "tokenExpired")

\* How a signinSilent() can end.
RenewFailures == {"timeout", "login_required", "interaction_required", "other"}

\* Faulty variant: login_required / interaction_required are not told apart from
\* other errors.
RenewCatch_NoInteraction(c, failure) ==
    IF failure = "timeout" THEN handleRenewalTimeout(c)
    ELSE handleRenewalError(c)

\* renewToken's catch block, by the rejection's message.
RenewCatch(c, failure) ==
    IF failure = "timeout" THEN handleRenewalTimeout(c)
    ELSE IF failure \in {"login_required", "interaction_required"}
         THEN handleInteractionRequired(c)
    ELSE handleRenewalError(c)

\* renewToken after signinSilent() resolved with a user: the library has
\* stored it and raised userLoaded; then lines 306-310.
RenewSucceeded(c, u) ==
    Emit([OnUserLoaded(c, u) EXCEPT !.st.user = extractUserProfile(u)],
         "tokenRenewed")

\* Faulty variant: the inner catch clears AuthState without telling subscribers.
GetIdTokenRenewFailed_Silent(c) ==
    [c EXCEPT !.st.isAuthenticated = FALSE, !.st.user = Null]

\* getIdToken's inner catch: renewal failed.
GetIdTokenRenewFailed(c) ==
    Emit([c EXCEPT !.st.isAuthenticated = FALSE, !.st.user = Null], "tokenExpired")

----------------------------------------------------------------------------
(* The record of the operation that completed last: what it was, whether   *)
(* its promise resolved or rejected and with which error code, what it     *)
(* returned, how its renewal (if any) ended, and what held when it began.  *)

\* The id_token's exp claim of the stored session is in the past.
IdExpPast == store # NoUser /\ DecodedExp(store) < now

\* The stored session's expiry under the policy (expires_at, else exp) is
\* in the past.
ExpiryPast == store # NoUser /\ EffectiveExpiry(store) < now

NoPre == [wasAuth |-> FALSE, idExpPast |-> FALSE, expiryPast |-> FALSE]

\* For an operation that runs in one step.
PreNow == [wasAuth |-> authState.isAuthenticated,
           idExpPast |-> IdExpPast, expiryPast |-> ExpiryPast]

\* For an operation that waited for signinSilent(): the stored session as
\* it was read when the operation was called.
PreCall == [wasAuth |-> authState.isAuthenticated,
            idExpPast |-> pending.idExpPast, expiryPast |-> pending.expiryPast]

NoOp == [op |-> "none", outcome |-> "none", code |-> "none", ret |-> NoUser,
         renewal |-> "none", pre |-> NoPre]

Done(op, outcome, code, ret) ==
    [op |-> op, outcome |-> outcome, code |-> code, ret |-> ret,
     renewal |-> "none", pre |-> PreNow]

DoneRenewal(op, outcome, code, ret, renewal, pre) ==
    [op |-> op, outcome |-> outcome, code |-> code, ret |-> ret,
     renewal |-> renewal, pre |-> pre]

StartPending(by) == [by |-> by, idExpPast |-> IdExpPast, expiryPast |-> ExpiryPast]

----------------------------------------------------------------------------
(* Initial state: the page has loaded and the AuthService singleton is     *)
(* constructed.  Browser storage may hold a session of an earlier page     *)
(* life, and the page may have been loaded through the provider's          *)
(* redirect.                                                               *)

Init ==
    /\ office \in BOOLEAN
    /\ now \in Clock
    /\ store \in {NoUser} \cup Users
    /\ authState = InitialAuthState
    /\ hashToken \in BOOLEAN
    /\ signinState \in BOOLEAN
    /\ pending = NoPending
    /\ last = NoOp
    /\ calls = {}
    /\ emitted = << >>
    /\ renewFailed = FALSE
    /\ appStorage = {}
    /\ payload = NoPayload
    /\ displayed = NoDisplay
    /\ client = NoCall

\* Calls that reach the identity provider over the network.
ProviderCalls == {"signinRedirect", "signinRedirectCallback", "signinSilent",
                  "signoutRedirect"}

\* window.history.replaceState is not available inside the host sandbox.
HashAfterCallback == IF office THEN hashToken ELSE FALSE

\* Time passes.
Tick ==
    /\ \E t \in Clock : t > now /\ now' = t
    /\ UNCHANGED <<office, appStorage, payload, displayed, client, store, authState, hashToken, signinState, pending,
                   last, calls, emitted, renewFailed>>

----------------------------------------------------------------------------
(* handleCallback, also as called by initialize *)

\* signinRedirectCallback() resolved with u: stored, userLoaded raised.
CallbackSucceeded(c, u) == OnUserLoaded(c, u)

\* Faulty variant: the catch block rethrows without recording the message.
CallbackFailed_NoMessage(c) == c

\* handleCallback's catch block.
CallbackFailed(c) == [c EXCEPT !.st.error = "callbackMessage"]

HandleCallbackOk ==
    /\ hashToken /\ signinState
    /\ \E u \in NewUsers(now) :
         LET c == CallbackSucceeded(Ctx(authState), u)
         IN  /\ store' = u
             /\ authState' = c.st
             /\ emitted' = c.log
    /\ hashToken' = HashAfterCallback
    /\ signinState' = FALSE
    /\ renewFailed' = FALSE
    /\ last' = Done("handleCallback", "resolved", "none", NoUser)
    /\ calls' = {"signinRedirectCallback"}
    /\ UNCHANGED <<office, appStorage, payload, displayed, client, now, pending>>

HandleCallbackFail ==
    /\ LET c == CallbackFailed(Ctx(authState))
       IN  /\ authState' = c.st
           /\ emitted' = c.log
    /\ signinState' = IF hashToken THEN FALSE ELSE signinState
    /\ last' = Done("handleCallback", "rejected", "CALLBACK_ERROR", NoUser)
    /\ calls' = {"signinRedirectCallback"}
    /\ UNCHANGED <<office, appStorage, payload, displayed, client, now, store, hashToken, pending, renewFailed>>

----------------------------------------------------------------------------
(* initialize *)

\* Faulty variant: only the flag is set, the profile is not populated.
InitFromStore_FlagOnly(st, u, t) ==
    IF u # NoUser /\ ~Expired(u, t)
    THEN [st EXCEPT !.isAuthenticated = TRUE]
    ELSE st

\* Faulty variant: the renewal policy with its buffer decides, not User.expired.
InitFromStore_Buffered(st, u, t) ==
    IF u # NoUser /\ ~isTokenExpired(u, FALSE, t)
    THEN [st EXCEPT !.isAuthenticated = TRUE, !.user = extractUserProfile(u)]
    ELSE st

\* Lines 128-134: the stored session makes AuthState authenticated.
InitFromStore(st, u, t) ==
    IF u # NoUser /\ ~Expired(u, t)
    THEN [st EXCEPT !.isAuthenticated = TRUE, !.user = extractUserProfile(u)]
    ELSE st

InitializeCached ==
    /\ ~hashToken
    /\ authState' = [InitFromStore([authState EXCEPT !.isLoading = TRUE], store, now)
                       EXCEPT !.isLoading = FALSE]
    /\ emitted' = << >>
    /\ last' = Done("initialize", "resolved", "none", NoUser)
    /\ calls' = {"getUser"}
    /\ UNCHANGED <<office, appStorage, payload, displayed, client, now, store, hashToken, signinState, pending, renewFailed>>

InitializeCallbackOk ==
    /\ hashToken /\ signinState
    /\ \E u \in NewUsers(now) :
         LET c == CallbackSucceeded(Ctx([authState EXCEPT !.isLoading = TRUE]), u)
         IN  /\ store' = u
             /\ authState' = [c.st EXCEPT !.isLoading = FALSE]
             /\ emitted' = c.log
    /\ hashToken' = HashAfterCallback
    /\ signinState' = FALSE
    /\ renewFailed' = FALSE
    /\ last' = Done("initialize", "resolved", "none", NoUser)
    /\ calls' = {"handleCallback", "signinRedirectCallback"}
    /\ UNCHANGED <<office, appStorage, payload, displayed, client, now, pending>>

\* Faulty variant: the error is recorded but isLoading is never reset.
InitializeCaught_NoFinally(st) == [st EXCEPT !.error = "callbackFailed"]

\* Lines 135-140: initialize's catch stores the AuthenticationError's
\* message, its finally clears isLoading.
InitializeCaught(st) == [st EXCEPT !.error = "callbackFailed", !.isLoading = FALSE]

\* handleCallback threw inside initialize.
InitializeCallbackFail ==
    /\ hashToken
    /\ LET c == CallbackFailed(Ctx([authState EXCEPT !.isLoading = TRUE]))
       IN  /\ authState' = InitializeCaught(c.st)
           /\ emitted' = c.log
    /\ signinState' = FALSE
    /\ last' = Done("initialize", "resolved", "none", NoUser)
    /\ calls' = {"handleCallback", "signinRedirectCallback"}
    /\ UNCHANGED <<office, appStorage, payload, displayed, client, now, store, hashToken, pending, renewFailed>>

----------------------------------------------------------------------------
(* login *)

\* signinRedirect() resolved: the page unloads, the provider redirects back
\* (with or without an id_token in the fragment) and the page is loaded
\* again with a newly constructed AuthService.
LoginOk ==
    /\ authState' = InitialAuthState
    /\ hashToken' \in BOOLEAN
    /\ signinState' = TRUE
    /\ pending' = NoPending
    /\ emitted' = << >>
    /\ last' = Done("login", "resolved", "none", NoUser)
    /\ calls' = {"signinRedirect"}
    /\ UNCHANGED <<office, appStorage, payload, displayed, client, now, store, renewFailed>>

\* Faulty variant: the catch block leaves isLoading set.
LoginFailed_StillLoading(st) == [st EXCEPT !.error = "loginMessage"]

\* login's catch block.
LoginFailed(st) == [st EXCEPT !.error = "loginMessage", !.isLoading = FALSE]

LoginFail ==
    /\ authState' = LoginFailed([authState EXCEPT !.isLoading = TRUE, !.error = NoError])
    /\ emitted' = << >>
    /\ last' = Done("login", "rejected", "LOGIN_ERROR", NoUser)
    /\ calls' = {"signinRedirect"}
    /\ UNCHANGED <<office, appStorage, payload, displayed, client, now, store, hashToken, signinState, pending, renewFailed>>

----------------------------------------------------------------------------
(* renewToken *)

\* In the host sandbox: clear AuthState, emit tokenExpired, throw.
RenewTokenSandbox ==
    /\ office
    /\ LET c == RenewUnsupported(Ctx(authState))
       IN  /\ authState' = c.st
           /\ emitted' = c.log
    /\ renewFailed' = TRUE
    /\ last' = DoneRenewal("renewToken", "rejected", "TOKEN_EXPIRED", NoUser,
                          "unsupported", PreNow)
    /\ calls' = {"renewToken"}
    /\ UNCHANGED <<office, appStorage, payload, displayed, client, now, store, hashToken, signinState, pending>>

\* Outside the sandbox: signinSilent() is started and awaited.
RenewTokenStart ==
    /\ ~office
    /\ pending.by = "none"
    /\ pending' = StartPending("renewToken")
    /\ UNCHANGED <<office, appStorage, payload, displayed, client, now, store, authState, hashToken, signinState,
                   last, calls, emitted, renewFailed>>

\* signinSilent() resolved with a renewed user.
RenewTokenOk ==
    /\ pending.by = "renewToken"
    /\ \E u \in NewUsers(now) :
         LET c == RenewSucceeded(Ctx(authState), u)
         IN  /\ store' = u
             /\ authState' = c.st
             /\ emitted' = c.log
    /\ pending' = NoPending
    /\ last' = DoneRenewal("renewToken", "resolved", "none", NoUser, "renewed", PreCall)
    /\ calls' = {"renewToken", "signinSilent"}
    /\ UNCHANGED <<office, appStorage, payload, displayed, client, now, hashToken, signinState, renewFailed>>

\* signinSilent() resolved without a user: `if (renewedUser)` is skipped.
RenewTokenNoUser ==
    /\ pending.by = "renewToken"
    /\ pending' = NoPending
    /\ emitted' = << >>
    /\ last' = DoneRenewal("renewToken", "resolved", "none", NoUser, "noUser", PreCall)
    /\ calls' = {"renewToken", "signinSilent"}
    /\ UNCHANGED <<office, appStorage, payload, displayed, client, now, store, authState, hashToken, signinState, renewFailed>>

\* signinSilent() rejected.
RenewTokenFail ==
    /\ pending.by = "renewToken"
    /\ \E f \in RenewFailures :
         LET c == RenewCatch(Ctx(authState), f)
         IN  /\ authState' = c.st
             /\ emitted' = c.log
             /\ last' = DoneRenewal("renewToken", "rejected", "TOKEN_EXPIRED", NoUser,
                                   f, PreCall)
    /\ pending' = NoPending
    /\ renewFailed' = TRUE
    /\ calls' = {"renewToken", "signinSilent"}
    /\ UNCHANGED <<office, appStorage, payload, displayed, client, now, store, hashToken, signinState>>

----------------------------------------------------------------------------
(* getIdToken *)

\* Line 207: the stored session is missing or expired under the policy.
NeedsRenewal == store = NoUser \/ isTokenExpired(store, office, now)

\* Line 222: user?.id_token || null, the token named by its session.
IdTokenOf(u) == u

GetIdTokenFresh ==
    /\ ~NeedsRenewal
    /\ emitted' = << >>
    /\ last' = Done("getIdToken", "resolved", "none", IdTokenOf(store))
    /\ calls' = {"getUser"}
    /\ UNCHANGED <<office, appStorage, payload, displayed, client, now, store, authState, hashToken, signinState, pending,
                   renewFailed>>

\* In the host sandbox renewToken throws at once; getIdToken catches it.
GetIdTokenSandbox ==
    /\ NeedsRenewal
    /\ office
    /\ LET c == GetIdTokenRenewFailed(RenewUnsupported(Ctx(authState)))
       IN  /\ authState' = c.st
           /\ emitted' = c.log
    /\ renewFailed' = TRUE
    /\ last' = DoneRenewal("getIdToken", "resolved", "none", NoUser,
                          "unsupported", PreNow)
    /\ calls' = {"getUser", "renewToken"}
    /\ UNCHANGED <<office, appStorage, payload, displayed, client, now, store, hashToken, signinState, pending>>

GetIdTokenStart ==
    /\ NeedsRenewal
    /\ ~office
    /\ pending.by = "none"
    /\ pending' = StartPending("getIdToken")
    /\ UNCHANGED <<office, appStorage, payload, displayed, client, now, store, authState, hashToken, signinState,
                   last, calls, emitted, renewFailed>>

\* The renewal succeeded: line 211 reads the stored session again and
\* line 222 returns its id_token.
GetIdTokenRenewed ==
    /\ pending.by = "getIdToken"
    /\ \E u \in NewUsers(now) :
         LET c == RenewSucceeded(Ctx(authState), u)
         IN  /\ store' = u
             /\ authState' = c.st
             /\ emitted' = c.log
             /\ last' = DoneRenewal("getIdToken", "resolved", "none", IdTokenOf(u),
                                   "renewed", PreCall)
    /\ pending' = NoPending
    /\ calls' = {"getUser", "renewToken", "signinSilent"}
    /\ UNCHANGED <<office, appStorage, payload, displayed, client, now, hashToken, signinState, renewFailed>>

\* The renewal resolved without a user: the stored session is read again
\* and its id_token returned, whatever its expiry.
GetIdTokenNoUser ==
    /\ pending.by = "getIdToken"
    /\ pending' = NoPending
    /\ emitted' = << >>
    /\ last' = DoneRenewal("getIdToken", "resolved", "none", IdTokenOf(store),
                          "noUser", PreCall)
    /\ calls' = {"getUser", "renewToken", "signinSilent"}
    /\ UNCHANGED <<office, appStorage, payload, displayed, client, now, store, authState, hashToken, signinState, renewFailed>>

\* The renewal failed: renewToken's catch, then getIdToken's catch.
GetIdTokenFail ==
    /\ pending.by = "getIdToken"
    /\ \E f \in RenewFailures :
         LET c == GetIdTokenRenewFailed(RenewCatch(Ctx(authState), f))
         IN  /\ authState' = c.st
             /\ emitted' = c.log
             /\ last' = DoneRenewal("getIdToken", "resolved", "none", NoUser,
                                   f, PreCall)
    /\ pending' = NoPending
    /\ renewFailed' = TRUE
    /\ calls' = {"getUser", "renewToken", "signinSilent"}
    /\ UNCHANGED <<office, appStorage, payload, displayed, client, now, store, hashToken, signinState>>

----------------------------------------------------------------------------
(* logout and signOut *)

\* signoutRedirect() resolved: the library removed the stored session on
\* the way, the page unloads and is loaded again after the provider's
\* sign-out.
LogoutOk ==
    /\ store' = NoUser
    /\ authState' = InitialAuthState
    /\ hashToken' = FALSE
    /\ pending' = NoPending
    /\ emitted' = << >>
    /\ last' = Done("logout", "resolved", "none", NoUser)
    /\ calls' = {"signoutRedirect"}
    /\ UNCHANGED <<office, appStorage, payload, displayed, client, now, signinState, renewFailed>>

\* signoutRedirect() rejected: logout's catch only rethrows.
LogoutFail ==
    /\ emitted' = << >>
    /\ last' = Done("logout", "rejected", "LOGOUT_ERROR", NoUser)
    /\ calls' = {"signoutRedirect"}
    /\ UNCHANGED <<office, appStorage, payload, displayed, client, now, store, authState, hashToken, signinState, pending,
                   renewFailed>>

\* signOut does not wait for, or cancel, a signinSilent() that is in
\* flight: the record of signOut notes whether there was one.
RenewalInFlight == IF pending.by # "none" THEN "inFlight" ELSE "none"

\* Lines 377-392 of signOut, after removeUser() resolved (the library has
\* raised userUnloaded).
SignedOut(c) ==
    Emit([OnUserUnloaded(c) EXCEPT !.st.isAuthenticated = FALSE,
                                   !.st.user = Null,
                                   !.st.error = NoError,
                                   !.st.isLoading = FALSE],
         "userSignedOut")

\* removeUser() resolved.  The storage sweep removes the library's 'oidc.'
\* keys, the state of a started sign-in among them, and every other key
\* that contains 'auth' or 'token'.
SignOutOk ==
    /\ LET c == SignedOut(Ctx(authState))
       IN  /\ authState' = c.st
           /\ emitted' = c.log
    /\ store' = NoUser
    /\ LET kept == StorageSweep(LocalStorageKeys)
       IN  /\ appStorage' = kept \ {OidcStateKey}
           /\ signinState' = (OidcStateKey \in kept)
    /\ last' = DoneRenewal("signOut", "resolved", "none", NoUser, RenewalInFlight, PreNow)
    /\ calls' = {"removeUser"}
    /\ UNCHANGED <<office, payload, displayed, client, now, hashToken, pending, renewFailed>>

\* removeUser() rejected: the catch block logs and returns.
SignOutRemoveFailed(c) == c

SignOutFail ==
    /\ LET c == SignOutRemoveFailed(Ctx(authState))
       IN  /\ authState' = c.st
           /\ emitted' = c.log
    /\ last' = Done("signOut", "resolved", "removeUserFailed", NoUser)
    /\ calls' = {"removeUser"}
    /\ UNCHANGED <<office, appStorage, payload, displayed, client, now, store, hashToken, signinState, pending, renewFailed>>

----------------------------------------------------------------------------
(* Events the library raises on its own.  Its expiry timers run for a      *)
(* session that carries an access token and expires_at; its automatic      *)
(* silent renewal is configured only outside the host sandbox.             *)

HasTimers == store # NoUser /\ store.access /\ store.expires_at # Absent

\* Seconds before expiry at which the library raises accessTokenExpiring.
ExpiringNotificationTime == 300

LibAccessTokenExpiring ==
    /\ HasTimers
    /\ store.expires_at - now <= ExpiringNotificationTime
    /\ store.expires_at - now > 0
    /\ LET c == OnAccessTokenExpiring(Ctx(authState))
       IN  /\ authState' = c.st
           /\ emitted' = c.log
    /\ last' = Done("event", "accessTokenExpiring", "none", NoUser)
    /\ calls' = {}
    /\ UNCHANGED <<office, appStorage, payload, displayed, client, now, store, hashToken, signinState, pending, renewFailed>>

LibAccessTokenExpired ==
    /\ HasTimers
    /\ store.expires_at - now <= 0
    /\ LET c == OnAccessTokenExpired(Ctx(authState))
       IN  /\ authState' = c.st
           /\ emitted' = c.log
    /\ last' = Done("event", "accessTokenExpired", "none", NoUser)
    /\ calls' = {}
    /\ UNCHANGED <<office, appStorage, payload, displayed, client, now, store, hashToken, signinState, pending, renewFailed>>

\* The automatic silent renewal succeeded: new session stored, userLoaded.
LibUserLoaded ==
    /\ ~office
    /\ HasTimers
    /\ \E u \in NewUsers(now) :
         LET c == OnUserLoaded(Ctx(authState), u)
         IN  /\ store' = u
             /\ authState' = c.st
             /\ emitted' = c.log
    /\ last' = Done("event", "userLoaded", "none", NoUser)
    /\ calls' = {}
    /\ UNCHANGED <<office, appStorage, payload, displayed, client, now, hashToken, signinState, pending, renewFailed>>

\* The automatic silent renewal failed.
LibSilentRenewError ==
    /\ ~office
    /\ HasTimers
    /\ LET c == OnSilentRenewError(Ctx(authState))
       IN  /\ authState' = c.st
           /\ emitted' = c.log
    /\ last' = Done("event", "silentRenewError", "none", NoUser)
    /\ calls' = {}
    /\ UNCHANGED <<office, appStorage, payload, displayed, client, now, store, hashToken, signinState, pending, renewFailed>>

----------------------------------------------------------------------------

Next ==
    \/ Tick
    \/ HandleCallbackOk
    \/ HandleCallbackFail
    \/ InitializeCached
    \/ InitializeCallbackOk
    \/ InitializeCallbackFail
    \/ LoginOk
    \/ LoginFail
    \/ RenewTokenSandbox
    \/ RenewTokenStart
    \/ RenewTokenOk
    \/ RenewTokenNoUser
    \/ RenewTokenFail
    \/ GetIdTokenFresh
    \/ GetIdTokenSandbox
    \/ GetIdTokenStart
    \/ GetIdTokenRenewed
    \/ GetIdTokenNoUser
    \/ GetIdTokenFail
    \/ LogoutOk
    \/ LogoutFail
    \/ SignOutOk
    \/ SignOutFail
    \/ LibAccessTokenExpiring
    \/ LibAccessTokenExpired
    \/ LibUserLoaded
    \/ LibSilentRenewError

Spec == Init /\ [][Next]_vars

----------------------------------------------------------------------------
(* Signing in and out on an origin whose localStorage holds keys of other  *)
(* code as well.                                                           *)

InitStorage ==
    /\ appStorage \in SUBSET AppKeys
    /\ office \in BOOLEAN
    /\ now \in Clock
    /\ store \in {NoUser} \cup Users
    /\ authState = InitialAuthState
    /\ hashToken \in BOOLEAN
    /\ signinState \in BOOLEAN
    /\ pending = NoPending
    /\ last = NoOp
    /\ calls = {}
    /\ emitted = << >>
    /\ renewFailed = FALSE
    /\ payload = NoPayload
    /\ displayed = NoDisplay
    /\ client = NoCall

NextStorage ==
    \/ LoginOk
    \/ LoginFail
    \/ HandleCallbackOk
    \/ HandleCallbackFail
    \/ SignOutOk
    \/ SignOutFail

SpecStorage == InitStorage /\ [][NextStorage]_vars

----------------------------------------------------------------------------
(* getIdToken over every session browser storage can hold, the ones whose  *)
(* id_token cannot be decoded included.                                    *)

InitPolicy ==
    /\ store \in {NoUser} \cup StoredSessions
    /\ office \in BOOLEAN
    /\ now \in Clock
    /\ authState \in {InitialAuthState,
                      [InitialAuthState EXCEPT !.isAuthenticated = store # NoUser,
                                               !.user = GetUser]}
    /\ hashToken = FALSE
    /\ signinState = FALSE
    /\ pending = NoPending
    /\ last = NoOp
    /\ calls = {}
    /\ emitted = << >>
    /\ renewFailed = FALSE
    /\ appStorage = {}
    /\ payload = NoPayload
    /\ displayed = NoDisplay
    /\ client = NoCall

NextPolicy ==
    \/ Tick
    \/ GetIdTokenFresh
    \/ GetIdTokenSandbox
    \/ GetIdTokenStart
    \/ GetIdTokenRenewed
    \/ GetIdTokenNoUser
    \/ GetIdTokenFail

SpecPolicy == InitPolicy /\ [][NextPolicy]_vars

----------------------------------------------------------------------------
(* The API clients: BedrockAgentCoreClient.invoke / LambdaAgentClient.invoke *)
(* and SellerHistoryService.getSellerHistory.  A call is a sequence of     *)
(* steps, one per await: while it awaits getIdToken() or renewToken() the  *)
(* steps of that operation run, and the call goes on when the operation    *)
(* has completed.                                                          *)

\* Forced renewals one getSellerHistory may make.
maxRetries == 1

\* Requests after which the model stops following a call.
MaxRequests == 3

\* HTTP statuses the APIs answer with.
Responses == {200, 401, 403, 500, 502}

\* Faulty variant: a 401/403 is retried whatever the retryCount.
ShouldRetry_Always(status, retryCount) == status \in {401, 403}

\* Line 331: a 401/403 is retried while retryCount < maxRetries.
ShouldRetry(status, retryCount) == status \in {401, 403} /\ retryCount < maxRetries

\* Lines 347-356: the error thrown for a response that is not retried.
ErrorOf(status) ==
    IF status = 502 THEN "serverError"
    ELSE IF status = 401 THEN "sessionExpired"
    ELSE IF status = 403 THEN "accessDenied"
    ELSE "httpError"

\* The error the caller of getSellerHistory gets for an error thrown at
\* retryCount: the retried call runs inside the try block of lines 334-344,
\* whose catch replaces whatever was thrown.
Thrown(error, retryCount) == IF retryCount > 0 THEN "sessionNotRenewed" ELSE error

\* The record of an operation the client has taken note of.
Noted == [NoOp EXCEPT !.op = "client"]

Finish(outcome) == [client EXCEPT !.phase = "idle", !.outcome = outcome]

\* The client awaits the AuthService operation op, which has not completed.
Awaits(op) == client.phase = op /\ last.op # op

\* The operation the client awaited has completed.
Awaited(api, op) == client.api = api /\ client.phase = op /\ last.op = op

SendRequest == [client EXCEPT !.phase = "fetch", !.requests = @ + 1]

\* getSellerHistory, lines 274-281.
SellerStart ==
    /\ client.phase = "idle"
    /\ pending.by = "none"
    /\ client' = IF authState.isAuthenticated
                 THEN [NoCall EXCEPT !.api = "sellerHistory", !.phase = "getIdToken"]
                 ELSE [NoCall EXCEPT !.api = "sellerHistory", !.outcome = "notAuthenticated"]
    /\ last' = Noted
    /\ calls' = {}
    /\ emitted' = << >>
    /\ UNCHANGED <<office, now, store, authState, hashToken, signinState, pending,
                   renewFailed, appStorage, payload, displayed>>

\* makeApiCallWithRetry, lines 295-325: getIdToken() has resolved.
SellerGotToken ==
    /\ Awaited("sellerHistory", "getIdToken")
    /\ client.requests < MaxRequests
    /\ client' = IF last.ret = NoUser
                 THEN Finish("sessionNotRenewed")
                 ELSE SendRequest
    /\ last' = Noted
    /\ UNCHANGED <<office, now, store, authState, hashToken, signinState, pending,
                   calls, emitted, renewFailed, appStorage, payload, displayed>>

\* Lines 327-362: the response has arrived.
SellerResponse ==
    /\ client.api = "sellerHistory"
    /\ client.phase = "fetch"
    /\ \E status \in Responses :
         client' = IF status = 200
                   THEN [Finish("data") EXCEPT !.status = status]
                   ELSE IF ShouldRetry(status, client.retryCount)
                   THEN [client EXCEPT !.phase = "renewToken", !.renewals = @ + 1,
                                       !.status = status]
                   ELSE [Finish(Thrown(ErrorOf(status), client.retryCount))
                           EXCEPT !.status = status]
    /\ last' = Noted
    /\ UNCHANGED <<office, now, store, authState, hashToken, signinState, pending,
                   calls, emitted, renewFailed, appStorage, payload, displayed>>

\* Lines 334-344: the forced renewToken() has settled.
SellerRenewed ==
    /\ Awaited("sellerHistory", "renewToken")
    /\ client' = IF last.outcome = "rejected"
                 THEN Finish(Thrown("sessionNotRenewed", client.retryCount + 1))
                 ELSE [client EXCEPT !.phase = "getIdToken", !.retryCount = @ + 1,
                                     !.renewed = TRUE]
    /\ last' = Noted
    /\ UNCHANGED <<office, now, store, authState, hashToken, signinState, pending,
                   calls, emitted, renewFailed, appStorage, payload, displayed>>

\* invoke, lines 23-40 of LambdaAgentClient (33-50 of
\* BedrockAgentCoreClient): getUser(), then getAccessToken(), whose token
\* is sent as it is; without one, getIdToken() is awaited.
InvokeStart ==
    /\ client.phase = "idle"
    /\ pending.by = "none"
    /\ client' = IF GetUser = Null
                 THEN [NoCall EXCEPT !.api = "invoke", !.outcome = "notAuthenticated"]
                 ELSE IF GetAccessToken # NoUser
                 THEN [NoCall EXCEPT !.api = "invoke", !.phase = "fetch", !.requests = 1]
                 ELSE [NoCall EXCEPT !.api = "invoke", !.phase = "getIdToken"]
    /\ last' = Noted
    /\ calls' = {}
    /\ emitted' = << >>
    /\ UNCHANGED <<office, now, store, authState, hashToken, signinState, pending,
                   renewFailed, appStorage, payload, displayed>>

\* Lines 36-48: getIdToken() has resolved.
InvokeGotToken ==
    /\ Awaited("invoke", "getIdToken")
    /\ client' = IF last.ret = NoUser THEN Finish("noToken") ELSE SendRequest
    /\ last' = Noted
    /\ UNCHANGED <<office, now, store, authState, hashToken, signinState, pending,
                   calls, emitted, renewFailed, appStorage, payload, displayed>>

\* Lines 66-108: the response has arrived.
InvokeResponse ==
    /\ client.api = "invoke"
    /\ client.phase = "fetch"
    /\ \E status \in Responses :
         client' = [Finish(IF status = 200 THEN "data" ELSE "httpError")
                      EXCEPT !.status = status]
    /\ last' = Noted
    /\ UNCHANGED <<office, now, store, authState, hashToken, signinState, pending,
                   calls, emitted, renewFailed, appStorage, payload, displayed>>

\* The steps of a call in progress, those of the operation it awaits
\* included.
CallSteps ==
    \/ SellerGotToken
    \/ SellerResponse
    \/ SellerRenewed
    \/ InvokeGotToken
    \/ InvokeResponse
    \/ Awaits("getIdToken") /\ GetIdTokenFresh
    \/ Awaits("getIdToken") /\ GetIdTokenSandbox
    \/ Awaits("getIdToken") /\ GetIdTokenStart
    \/ Awaits("getIdToken") /\ GetIdTokenRenewed
    \/ Awaits("getIdToken") /\ GetIdTokenNoUser
    \/ Awaits("getIdToken") /\ GetIdTokenFail
    \/ Awaits("renewToken") /\ RenewTokenSandbox
    \/ Awaits("renewToken") /\ RenewTokenStart
    \/ Awaits("renewToken") /\ RenewTokenOk
    \/ Awaits("renewToken") /\ RenewTokenNoUser
    \/ Awaits("renewToken") /\ RenewTokenFail

\* Between calls the task pane starts a call, or renews the token.
IdleSteps ==
    \/ SellerStart
    \/ InvokeStart
    \/ client.phase = "idle" /\ RenewTokenSandbox
    \/ client.phase = "idle" /\ RenewTokenStart
    \/ client.phase = "idle" /\ RenewTokenOk
    \/ client.phase = "idle" /\ RenewTokenNoUser
    \/ client.phase = "idle" /\ RenewTokenFail

NextClients ==
    \/ Tick
    \/ IdleSteps
    \/ CallSteps

SpecClients == InitPolicy /\ [][NextClients]_vars

\* Every promise a call awaits settles: signinSilent() has the library's
\* timeout, a request gets its response.
FairSpecClients == SpecClients /\ WF_vars(CallSteps)

----------------------------------------------------------------------------
(* The task pane showing the profile of a stored session, over every       *)
(* payload the provider can issue.                                         *)

InitProfile ==
    /\ payload \in TokenPayloads
    /\ store = SessionOf(payload)
    /\ displayed = NoDisplay
    /\ client = NoCall
    /\ office \in BOOLEAN
    /\ now \in Clock
    /\ authState = InitialAuthState
    /\ hashToken = FALSE
    /\ signinState = FALSE
    /\ pending = NoPending
    /\ last = NoOp
    /\ calls = {}
    /\ emitted = << >>
    /\ renewFailed = FALSE
    /\ appStorage = {}

\* displayUserIdentity: authService.getUser() extracts the profile from
\* the stored session's filtered claims, and the panel renders it.
DisplayUserIdentity ==
    /\ store # NoUser
    /\ displayed' = Rendered(extractUserProfileClaims(FilterProtocolClaims(payload), now))
    /\ UNCHANGED <<office, now, store, authState, hashToken, signinState, pending,
                   last, calls, emitted, renewFailed, appStorage, payload, client>>

NextProfile ==
    \/ DisplayUserIdentity
    \/ Tick

SpecProfile == InitProfile /\ [][NextProfile]_vars

----------------------------------------------------------------------------
(* Vocabulary of the properties *)

\* isAuthenticated() and getAuthState().user
Cleared == ~authState.isAuthenticated /\ authState.user = Null

\* Number of times `ev` was emitted by the operation in `last`.
Emitted(ev) == Cardinality({i \in 1 .. Len(emitted) : emitted[i].ev = ev})

\* The operation in `last` attempted a renewal and the renewal failed.
RenewalFailed == last.renewal \in RenewFailures \cup {"unsupported"}

----------------------------------------------------------------------------
(* C1: in every reachable state, and at every delivery of an event to a    *)
(* subscriber, isAuthenticated == true implies user != null.               *)
C1_AuthenticatedHasUser ==
    /\ authState.isAuthenticated => authState.user # Null
    /\ \A i \in 1 .. Len(emitted) : emitted[i].isAuth => emitted[i].hasUser

\* AuthState is authenticated after initialize found a stored session.
C1_Witness ==
    /\ last.op = "initialize"
    /\ authState.isAuthenticated
    /\ authState.user # Null

(* C2: user is non-null only if isAuthenticated is true, in every          *)
(* reachable state and at every delivery of an event, also after a silent  *)
(* renewal that succeeded while AuthState was unauthenticated.             *)
C2_UserOnlyIfAuthenticated ==
    /\ authState.user # Null => authState.isAuthenticated
    /\ \A i \in 1 .. Len(emitted) : emitted[i].hasUser => emitted[i].isAuth

\* A silent renewal started by renewToken() succeeded while AuthState was
\* unauthenticated.
C2_Witness ==
    /\ last.op = "renewToken"
    /\ last.renewal = "renewed"
    /\ ~last.pre.wasAuth
    /\ authState.user # Null

(* C3: after signOut(), after a renewToken() that rejected and after a     *)
(* getIdToken() whose renewal failed, isAuthenticated() is false and       *)
(* getAuthState().user is null.                                            *)
C3_ClearedAfterSignOutOrFailedRenewal ==
    (last.op = "signOut" \/ RenewalFailed) => Cleared

(* C4: when handleCallback() resolves, isAuthenticated() is true and       *)
(* getAuthState().user is the profile of the session the callback stored.  *)
C4_CallbackAuthenticates ==
    (last.op = "handleCallback" /\ last.outcome = "resolved") =>
        /\ authState.isAuthenticated
        /\ authState.user # Null
        /\ authState.user = extractUserProfile(store)

\* handleCallback() resolved on an AuthState that was unauthenticated.
C4_Witness ==
    /\ last.op = "handleCallback"
    /\ last.outcome = "resolved"
    /\ ~last.pre.wasAuth
    /\ "signinRedirectCallback" \in calls

(* C5: in the host sandbox every renewToken() rejects with TOKEN_EXPIRED,  *)
(* leaves isAuthenticated false and user null, and never calls the         *)
(* provider's signinSilent.                                                *)
C5_SandboxRenewRejects ==
    (office /\ last.op = "renewToken") =>
        /\ last.outcome = "rejected"
        /\ last.code = "TOKEN_EXPIRED"
        /\ Cleared
        /\ "signinSilent" \notin calls

\* renewToken() was called in the sandbox on an authenticated AuthState.
C5_Witness ==
    /\ office
    /\ last.op = "renewToken"
    /\ last.pre.wasAuth
    /\ store # NoUser

(* C6 as stated: a getIdToken() called while the id_token's exp claim is   *)
(* in the past attempts renewToken() before it returns, and returns null   *)
(* in the host sandbox.                                                    *)
C6_RenewsWhenExpClaimPast ==
    (last.op = "getIdToken" /\ last.pre.idExpPast) =>
        /\ "renewToken" \in calls
        /\ office => last.ret = NoUser

(* C6 as amended: a getIdToken() called while the stored session's expiry  *)
(* under the policy (expires_at, or the id_token's exp claim when          *)
(* expires_at is not set) is in the past attempts renewToken() before it   *)
(* returns, and returns null in the host sandbox.                          *)
C6_RenewsWhenExpiryPast ==
    (last.op = "getIdToken" /\ last.pre.expiryPast) =>
        /\ "renewToken" \in calls
        /\ office => last.ret = NoUser

\* getIdToken() was called on a session past its expiry, in the sandbox.
C6_Witness ==
    /\ last.op = "getIdToken"
    /\ last.pre.expiryPast
    /\ office
    /\ last.ret = NoUser

(* C7: outside the sandbox, a getIdToken() on an expired token whose       *)
(* silent renewal fails with login_required leaves AuthState               *)
(* unauthenticated and emits loginRequired exactly once.                   *)
C7_LoginRequiredOnce ==
    (~office /\ last.op = "getIdToken" /\ last.renewal = "login_required") =>
        /\ Cleared
        /\ Emitted("loginRequired") = 1

\* Such a call, made on an expired token while AuthState was authenticated.
C7_Witness ==
    /\ ~office
    /\ last.op = "getIdToken"
    /\ last.renewal = "login_required"
    /\ last.pre.expiryPast
    /\ last.pre.wasAuth

(* C8: an initialize() that finds no id_token in the fragment and a stored *)
(* session that has not expired makes no call to the identity provider and *)
(* ends with AuthState authenticated as that session's user.               *)
C8_InitializeFromCache ==
    (/\ last.op = "initialize"
     /\ "getUser" \in calls
     /\ store # NoUser
     /\ EffectiveExpiry(store) > now) =>
        /\ calls \cap ProviderCalls = {}
        /\ authState.isAuthenticated
        /\ authState.user = extractUserProfile(store)

\* initialize() ran on such a stored session, inside the renewal buffer of
\* 60 s.
C8_Witness ==
    /\ last.op = "initialize"
    /\ "getUser" \in calls
    /\ store # NoUser
    /\ EffectiveExpiry(store) > now
    /\ EffectiveExpiry(store) - now <= ExpirationBuffer
    /\ authState.isAuthenticated

\* The operation in `last` failed: its promise rejected, its renewal
\* failed, or it is the library's silent-renew error.
Failed ==
    \/ last.outcome = "rejected"
    \/ RenewalFailed
    \/ (last.op = "event" /\ last.outcome = "silentRenewError")

(* C9 as stated: every failure ends with AuthState unauthenticated.        *)
C9_EveryFailureClears == Failed => Cleared

(* C9 as amended: every renewal failure ends with AuthState reset to       *)
(* unauthenticated and an event raised (and TOKEN_EXPIRED thrown by        *)
(* renewToken); a login, callback or logout failure raises its typed error *)
(* and a silent-renew error its event, and login failure, callback failure *)
(* and silent-renew error record the message in AuthState.error and leave  *)
(* isAuthenticated as it was.                                              *)
C9_FailureOutcomes ==
    /\ RenewalFailed =>
          /\ Cleared
          /\ Emitted("tokenExpired") + Emitted("loginRequired")
               + Emitted("authenticationFailed") >= 1
          /\ last.op = "renewToken" =>
                (last.outcome = "rejected" /\ last.code = "TOKEN_EXPIRED")
    /\ (last.op = "login" /\ last.outcome = "rejected") =>
          /\ last.code = "LOGIN_ERROR"
          /\ authState.error = "loginMessage"
          /\ authState.isAuthenticated = last.pre.wasAuth
    /\ (last.op = "handleCallback" /\ last.outcome = "rejected") =>
          /\ last.code = "CALLBACK_ERROR"
          /\ authState.error = "callbackMessage"
          /\ authState.isAuthenticated = last.pre.wasAuth
    /\ (last.op = "logout" /\ last.outcome = "rejected") =>
          last.code = "LOGOUT_ERROR"
    /\ (last.op = "event" /\ last.outcome = "silentRenewError") =>
          /\ Emitted("silentRenewError") = 1
          /\ authState.error = "silentRenewMessage"
          /\ authState.isAuthenticated = last.pre.wasAuth

\* A renewal failed on an authenticated AuthState.
C9_Witness ==
    /\ RenewalFailed
    /\ last.pre.wasAuth
    /\ last.renewal = "timeout"

(* C10: once a renewal has failed, getUser() and getAccessToken() return   *)
(* null until a login callback is processed.                               *)
C10_SessionDestroyedOnRenewalFailure ==
    renewFailed => (GetUser = Null /\ GetAccessToken = NoUser)

(* C11: the renewal buffer is 300 s outside the host sandbox and zero     *)
(* inside it: a getIdToken() on a stored session returns without a renewal *)
(* attempt only if the session's remaining lifetime exceeds the buffer,    *)
(* and attempts a renewal only if it does not.                             *)
C11_BufferFiveMinutes ==
    [][LET claimedBuffer == IF office THEN 0 ELSE 300
           withinBuffer == EffectiveExpiry(store) - now <= claimedBuffer
       IN  /\ (GetIdTokenFresh /\ store # NoUser) => ~withinBuffer
           /\ ((GetIdTokenStart \/ GetIdTokenSandbox) /\ store # NoUser)
                 => withinBuffer]_vars

\* renewToken() was called outside the sandbox and its silent renewal
\* failed with a frame timeout, login_required or interaction_required.
RenewTokenNeedsLogin ==
    /\ ~office
    /\ last.op = "renewToken"
    /\ last.renewal \in {"timeout", "login_required", "interaction_required"}

(* C12 as stated: in each of the three cases renewToken() clears the       *)
(* session and emits the loginRequired event.                              *)
C12_LoginRequiredInEachCase ==
    RenewTokenNeedsLogin => (Cleared /\ Emitted("loginRequired") >= 1)

(* C12 as amended: in each of the three cases renewToken() clears the      *)
(* session and emits exactly one event telling subscribers to sign in      *)
(* again: tokenExpired after a frame timeout, loginRequired after          *)
(* login_required or interaction_required.                                 *)
C12_SessionClearedAndSignalled ==
    RenewTokenNeedsLogin =>
        /\ Cleared
        /\ Len(emitted) = 1
        /\ emitted[1].ev = (IF last.renewal = "timeout" THEN "tokenExpired"
                                                        ELSE "loginRequired")
        /\ ~emitted[1].isAuth /\ ~emitted[1].hasUser

\* The renewal failed with interaction_required on an authenticated
\* AuthState.
C12_Witness ==
    /\ RenewTokenNeedsLogin
    /\ last.renewal = "interaction_required"
    /\ last.pre.wasAuth
    /\ Emitted("loginRequired") = 1

(* C13: after the provider library has raised its access-token-expired    *)
(* event, isAuthenticated() is false and getAuthState().user is null.      *)
C13_ClearedOnExpiredEvent ==
    (last.op = "event" /\ last.outcome = "accessTokenExpired") => Cleared

(* C14: an initialize() that reads a stored session whose expiry under    *)
(* the policy (expires_at, or the id_token's exp claim when expires_at is  *)
(* not set) is in the past does not make AuthState authenticated.          *)
C14_InitializeOnlyUnexpired ==
    (/\ last.op = "initialize"
     /\ "getUser" \in calls
     /\ last.pre.expiryPast
     /\ ~last.pre.wasAuth) => ~authState.isAuthenticated

(* C15: a handleCallback() whose provider callback cannot be processed    *)
(* rejects with code CALLBACK_ERROR, records the failure message in        *)
(* AuthState.error and leaves isAuthenticated as it was.                   *)
C15_CallbackFailure ==
    (last.op = "handleCallback" /\ last.outcome # "resolved") =>
        /\ last.outcome = "rejected"
        /\ last.code = "CALLBACK_ERROR"
        /\ authState.error = "callbackMessage"
        /\ authState.isAuthenticated = last.pre.wasAuth
        /\ Emitted("userLoaded") = 0

\* handleCallback() failed on an unauthenticated AuthState while the
\* fragment carried an id_token.
C15_Witness ==
    /\ last.op = "handleCallback"
    /\ last.outcome = "rejected"
    /\ ~last.pre.wasAuth
    /\ ~authState.isAuthenticated
    /\ hashToken

(* C16: a login() whose signinRedirect fails rejects with code             *)
(* LOGIN_ERROR, with isLoading false and the failure message in            *)
(* AuthState.error; a login() whose redirect started does not reject.      *)
C16_LoginFailure ==
    last.op = "login" =>
        /\ last.outcome \in {"resolved", "rejected"}
        /\ last.outcome = "rejected" =>
              /\ last.code = "LOGIN_ERROR"
              /\ ~authState.isLoading
              /\ authState.error = "loginMessage"
        /\ last.outcome = "resolved" => (signinState /\ last.code = "none")

\* login() failed with no sign-in request started.
C16_Witness ==
    /\ last.op = "login"
    /\ last.outcome = "rejected"
    /\ ~signinState
    /\ authState.error = "loginMessage"

(* C17: getIdToken() never rejects; when its renewal fails, whatever the   *)
(* stored session and the failure, it resolves to null and the last event  *)
(* its subscribers receive is tokenExpired.                                *)
C17_RenewalFailureBroadcast ==
    last.op = "getIdToken" =>
        /\ last.outcome = "resolved"
        /\ RenewalFailed =>
              /\ last.ret = NoUser
              /\ Len(emitted) >= 1
              /\ emitted[Len(emitted)].ev = "tokenExpired"

\* The renewal getIdToken() started failed with login_required.
C17_Witness ==
    /\ last.op = "getIdToken"
    /\ last.renewal = "login_required"
    /\ last.ret = NoUser
    /\ Emitted("tokenExpired") = 1

(* C18: for every token payload, the profile the task pane shows has the  *)
(* payload's subject id, name, email and expiry timestamp.                 *)
C18_ProfileRoundTrip ==
    displayed # NoDisplay =>
        /\ displayed.sub = payload.sub
        /\ displayed.name = payload.name
        /\ displayed.email = payload.email
        /\ displayed.expiresAt = ToLocaleString(payload.exp)

(* C19: a signOut() whose removeUser() resolved removes from localStorage  *)
(* every key with the prefix 'oidc.' and no other key.                     *)
C19_OnlyProviderKeysRemoved ==
    [][SignOutOk =>
         \A key \in LocalStorageKeys :
             (key \in LocalStorageKeys') <=> ~StartsWith(key, OidcPrefix)]_vars

(* C20: signOut() never rejects; when it has resolved, isAuthenticated is *)
(* false, user is null and error is null, also when removeUser() failed;   *)
(* userSignedOut was emitted at most once.                                 *)
C20_SignOutAlwaysClears ==
    last.op = "signOut" =>
        /\ last.outcome = "resolved"
        /\ Cleared
        /\ authState.error = NoError
        /\ Emitted("userSignedOut") <= 1

(* C21: a getIdToken() on a stored session that has neither expires_at    *)
(* nor an id_token from which exp can be decoded attempts a renewal: it    *)
(* never returns without having called renewToken().                       *)
C21_NoExpiryMeansRenewal ==
    (/\ last.op = "getIdToken"
     /\ "renewToken" \notin calls) =>
        /\ store # NoUser
        /\ EffectiveExpiry(store) # Absent
        /\ last.ret = IdTokenOf(store)

\* getIdToken() has attempted a renewal for such a session, which is still
\* the stored one.
C21_Witness ==
    /\ last.op = "getIdToken"
    /\ "renewToken" \in calls
    /\ store # NoUser
    /\ store.expires_at = Absent
    /\ DecodedExp(store) = Absent
    /\ RenewalFailed

(* C22: every non-null token getIdToken() returns belongs to a session   *)
(* that has an expiry under the policy and has not reached it at the       *)
(* moment of return, also when the renewal resolved without a user.        *)
C22_ReturnedTokenUnexpired ==
    [][(GetIdTokenFresh \/ GetIdTokenRenewed \/ GetIdTokenNoUser) =>
          (last'.ret # NoUser =>
              /\ last'.ret = store'
              /\ EffectiveExpiry(last'.ret) # Absent
              /\ EffectiveExpiry(last'.ret) > now')]_vars

\* The signinSilent() in flight settles, for renewToken() or getIdToken().
RenewalSettles ==
    \/ RenewTokenOk
    \/ RenewTokenNoUser
    \/ RenewTokenFail
    \/ GetIdTokenRenewed
    \/ GetIdTokenNoUser
    \/ GetIdTokenFail

(* C23: when signOut() has completed and cleared AuthState while a renewal *)
(* was in flight outside the sandbox, AuthState is still unauthenticated   *)
(* with user null after that renewal has settled.                          *)
C23_LateRenewalKeepsSignedOut ==
    [][(/\ RenewalSettles
        /\ last.op = "signOut"
        /\ last.renewal = "inFlight"
        /\ Cleared) => Cleared']_vars

(* C24: in the host sandbox a getIdToken() on a missing or expired stored *)
(* session delivers tokenExpired exactly twice, and no other event, and    *)
(* resolves to null.                                                       *)
C24_SandboxTokenExpiredTwice ==
    (office /\ last.op = "getIdToken" /\ "renewToken" \in calls) =>
        /\ Emitted("tokenExpired") = 2
        /\ Len(emitted) = 2
        /\ last.outcome = "resolved"
        /\ last.ret = NoUser

\* Such a call on a stored session past its expiry.
C24_Witness ==
    /\ office
    /\ last.op = "getIdToken"
    /\ last.pre.expiryPast
    /\ store # NoUser
    /\ Emitted("tokenExpired") = 2

(* C25: at every delivery of tokenExpired, loginRequired or                *)
(* authenticationFailed a subscriber reads isAuthenticated false and user  *)
(* null.                                                                   *)
C25_ClearedBeforeDelivery ==
    \A i \in 1 .. Len(emitted) :
        emitted[i].ev \in {"tokenExpired", "loginRequired", "authenticationFailed"}
            => (~emitted[i].isAuth /\ ~emitted[i].hasUser)

\* authenticationFailed was delivered by a renewal that failed on an
\* authenticated AuthState.
C25_Witness ==
    /\ last.renewal = "other"
    /\ last.pre.wasAuth
    /\ Emitted("authenticationFailed") = 1

Unexpired ==
    /\ store # NoUser
    /\ EffectiveExpiry(store) # Absent
    /\ EffectiveExpiry(store) - now > (IF office THEN 0 ELSE ExpirationBuffer)

(* C27: a getIdToken() called on a stored session that is not expired     *)
(* under the policy returns that session's id_token, calls no renewToken,  *)
(* emits no event and leaves AuthState unchanged.                          *)
C27_FreshTokenNoEffect ==
    [][((GetIdTokenFresh \/ GetIdTokenSandbox \/ GetIdTokenStart) /\ Unexpired) =>
          /\ last'.op = "getIdToken"
          /\ last'.ret = IdTokenOf(store)
          /\ "renewToken" \notin calls'
          /\ emitted' = << >>
          /\ authState' = authState
          /\ pending' = pending
          /\ store' = store]_vars

\* getIdToken() returned the id_token of the session of an authenticated
\* AuthState without renewal.
C27_Witness ==
    /\ last.op = "getIdToken"
    /\ last.ret # NoUser
    /\ last.ret = store
    /\ calls = {"getUser"}
    /\ authState.isAuthenticated

(* C28: invoke sends its request, which carries the bearer token, only   *)
(* while isAuthenticated() is true: after a renewal failure has reset      *)
(* AuthState no request of invoke is in flight while AuthState is          *)
(* unauthenticated.                                                        *)
C28_BearerOnlyWhileAuthenticated ==
    (client.api = "invoke" /\ client.phase = "fetch" /\ renewFailed) =>
        authState.isAuthenticated

(* C29: a getSellerHistory makes at most two HTTP requests and at most one *)
(* forced renewToken() call, never retries a retried request, and          *)
(* terminates.                                                             *)
C29_AtMostTwoRequests ==
    /\ [](client.api = "sellerHistory" =>
            /\ client.requests <= 2
            /\ client.renewals <= 1
            /\ client.retryCount <= maxRetries
            /\ client.requests <= client.retryCount + 1)
    /\ (client.api = "sellerHistory" /\ client.phase # "idle")
          ~> (client.phase = "idle")

\* The retried request was answered 401 or 403 and the call ended.
C29_Witness ==
    /\ client.api = "sellerHistory"
    /\ client.phase = "idle"
    /\ client.requests = 2
    /\ client.renewals = 1
    /\ client.status \in {401, 403}

(* C30: when the forced renewal of a getSellerHistory succeeded and the   *)
(* retried request was answered with a server error, the call fails with   *)
(* that response's own error, not with the error of a session that could   *)
(* not be renewed.                                                         *)
C30_RetriedRequestOwnError ==
    (/\ client.api = "sellerHistory"
     /\ client.phase = "idle"
     /\ client.renewed
     /\ client.requests = 2
     /\ client.status \in {500, 502}) =>
        /\ client.outcome = ErrorOf(client.status)
        /\ client.outcome # "sessionNotRenewed"

====
